---- MODULE Spec2Model ----
(***************************************************************************)
(* Cross-region SSO demo: the resource server's request pipeline           *)
(* (us-api/server.js): CORS origin check, the authenticate middleware,     *)
(* jwt.verify with the federated key callback getKey, and the two JWKS     *)
(* clients with their per-kid caches; and the browser application         *)
(* (eu-app/src/App.tsx): the App component with its silent check, its      *)
(* automatic login at the alias of the idp_hint parameter, and the         *)
(* round trip through the identity providers.                              *)
(*                                                                         *)
(* Time is counted in seconds (the unit of the exp claim).  A token is a   *)
(* record of the fields the verifier reads; a public key is the pair       *)
(* (owning region, kid).  Strings built by template literals are kept as   *)
(* tuples of their parts, so that equality of the tuples is exact string   *)
(* equality.                                                               *)
(***************************************************************************)
EXTENDS Integers, Sequences, FiniteSets, TLC

(* ---------------- bounds of the model ---------------- *)
\* number of clock steps a behaviour may take
MaxTicks == 2

(* ---------------- configuration, server.js:9-28 ---------------- *)
KEYCLOAK_URL == "http://localhost:8080"
KEYCLOAK_EXTERNAL_URL == "http://localhost:8080"
REALM == "us-realm"
CORS_ORIGIN == "http://localhost:3000"
CROSS_KEYCLOAK_URL == "http://localhost:8081"
CROSS_KEYCLOAK_EXTERNAL_URL == "http://localhost:8081"
CROSS_REALM == "eu-realm"
CROSS_CORS_ORIGIN == "http://localhost:3001"

\* jwksClient options, server.js:33-46.  Each client caches signing keys per
\* kid; with fewer kids than cacheMaxEntries no entry is ever evicted for room.
cacheMaxAge == 600000
cacheMaxEntries == 5

\* the two JWKS clients: localJwks and crossJwks
Resolvers == {"local", "cross"}

\* key identifiers the two key-discovery endpoints may publish
Kids == {"k1", "k2"}

\* the clock advances by two thirds of the cache lifetime, in seconds
TickStep == (2 * (cacheMaxAge \div 1000)) \div 3

(* ---------------- issuers, server.js:81-86 ---------------- *)
\* `${base}/realms/${realm}`
IssuerOf(base, realm) == <<base, "/realms/", realm>>

ACCEPTED_ISSUERS ==
    << IssuerOf(KEYCLOAK_URL, REALM),
       IssuerOf(KEYCLOAK_EXTERNAL_URL, REALM),
       IssuerOf(CROSS_KEYCLOAK_URL, CROSS_REALM),
       IssuerOf(CROSS_KEYCLOAK_EXTERNAL_URL, CROSS_REALM) >>

Range(s) == {s[i] : i \in DOMAIN s}

\* issuer strings a token may carry: each region's own, and a foreign one
\* that ends with an allow-listed realm path
EvilIssuer == IssuerOf("https://evil.example", REALM)
RegionIssuer(j) ==
    IF j = "local" THEN IssuerOf(KEYCLOAK_EXTERNAL_URL, REALM)
                   ELSE IssuerOf(CROSS_KEYCLOAK_EXTERNAL_URL, CROSS_REALM)
Issuers == {RegionIssuer("local"), RegionIssuer("cross"), EvilIssuer}

(* ---------------- CORS, server.js:91-105 ---------------- *)
allowedOrigins == <<CORS_ORIGIN, CROSS_CORS_ORIGIN>>

\* "" stands for a request without an Origin header
Origins == {"", CORS_ORIGIN, CROSS_CORS_ORIGIN, "http://evil.example"}

\* origin: (origin, cb) => ...   TRUE = cb(null, true), FALSE = cb(new Error)
OriginAllowedMutant(origin) == TRUE
OriginAllowed(origin) == origin = "" \/ origin \in Range(allowedOrigins)

(* ---------------- tokens and Authorization headers ---------------- *)
Algs == {"RS256", "HS256", "none"}
Signers == {"local", "cross", "attacker"}

\* the public key a resolver returns for kid k
KeyOf(j, k) == [owner |-> j, kid |-> k]
NoKey == [owner |-> "", kid |-> ""]

\* a space-separated segment of the header that is a plain word
Word(s) == [kind |-> "word", text |-> s]

\* a three-part JWT.  by = the holder of the key material the signature was
\* made with: RS256 = the private key of (by, kid), HS256 = an HMAC keyed with
\* the public key of (by, kid), none = no signature part at all.
\* A template is a token whose expiry is still relative to its issue time.
\* It is a record [kind, alg, kid, by, iss, ttl, nbf] with
\* exp = issue time + ttl and nbf = issue time + 1 when the template has one.

\* payload.nbf of a token without that claim
NoNbf == -1

\* the token a client presents at time t from template tp
Issue(tp, t) ==
    [kind |-> "jwt", alg |-> tp.alg, kid |-> tp.kid, by |-> tp.by,
     iss |-> tp.iss, exp |-> t + tp.ttl,
     nbf |-> IF tp.nbf THEN t + 1 ELSE NoNbf]

\* authHeader && authHeader.startsWith("Bearer ")
HasBearerMutant(h) == Len(h) >= 2
HasBearer(h) == Len(h) >= 2 /\ h[1] = Word("Bearer")

\* authHeader.split(" ")[1]
TokenOfMutant(h) == h[Len(h)]
TokenOf(h) == h[2]

(* ---------------- jsonwebtoken: jwt.verify, server.js:120-127 ---------- *)
\* an Error: its name and its message; the message is kept as the list of
\* its text parts and the list of issuer strings printed into it
NoError == [name |-> "", text |-> << >>, issuers |-> << >>]
JwtError(text) == [name |-> "JsonWebTokenError", text |-> text, issuers |-> << >>]

\* options passed to jwt.verify
algorithmsMutant == {"RS256", "HS256"}
algorithms == {"RS256"}

issuerOptionMutant == SubSeq(ACCEPTED_ISSUERS, 1, 2)
issuerOption == ACCEPTED_ISSUERS

\* Array.isArray(options.issuer) && options.issuer.indexOf(payload.iss) === -1
IssuerInvalidMutant(iss) == \A i \in Range(issuerOption) : i[3] # iss[3]
IssuerInvalid(iss) == iss \notin Range(issuerOption)

\* jws.verify(jwtString, alg, key): the signature was made with the key
\* material that belongs to the given public key
SigValid(tok, key) == KeyOf(tok.by, tok.kid) = key

\* the part of jwt.verify that runs before the key callback
\*   !jwtString -> 'jwt must be provided'; not three parts -> 'jwt malformed'
PreCheck(tok) ==
    IF tok.kind = "word" /\ tok.text = "" THEN JwtError(<<"jwt must be provided">>)
    ELSE IF tok.kind = "word" THEN JwtError(<<"jwt malformed">>)
    ELSE NoError

\* the part of jwt.verify that runs once the key callback delivered a key,
\* at clock t: signature present, algorithm allowed, signature valid, nbf,
\* exp, issuer - in the order of the library
VerifyWithKeyIssuerFirst(tok, key, t) ==
    IF tok.alg = "none" THEN JwtError(<<"jwt signature is required">>)
    ELSE IF tok.alg \notin algorithms THEN JwtError(<<"invalid algorithm">>)
    ELSE IF ~SigValid(tok, key) THEN JwtError(<<"invalid signature">>)
    ELSE IF tok.nbf # NoNbf /\ tok.nbf > t
         THEN [name |-> "NotBeforeError", text |-> <<"jwt not active">>,
               issuers |-> << >>]
    ELSE IF IssuerInvalid(tok.iss)
         THEN [name |-> "JsonWebTokenError",
               text |-> <<"jwt issuer invalid. expected: ">>,
               issuers |-> issuerOption]
    ELSE IF t >= tok.exp
         THEN [name |-> "TokenExpiredError", text |-> <<"jwt expired">>,
               issuers |-> << >>]
    ELSE NoError

VerifyWithKeyLateExpiry(tok, key, t) ==
    IF tok.alg = "none" THEN JwtError(<<"jwt signature is required">>)
    ELSE IF tok.alg \notin algorithms THEN JwtError(<<"invalid algorithm">>)
    ELSE IF ~SigValid(tok, key) THEN JwtError(<<"invalid signature">>)
    ELSE IF tok.nbf # NoNbf /\ tok.nbf > t
         THEN [name |-> "NotBeforeError", text |-> <<"jwt not active">>,
               issuers |-> << >>]
    ELSE IF t > tok.exp + 1
         THEN [name |-> "TokenExpiredError", text |-> <<"jwt expired">>,
               issuers |-> << >>]
    ELSE IF IssuerInvalid(tok.iss)
         THEN [name |-> "JsonWebTokenError",
               text |-> <<"jwt issuer invalid. expected: ">>,
               issuers |-> issuerOption]
    ELSE NoError

VerifyWithKey(tok, key, t) ==
    IF tok.alg = "none" THEN JwtError(<<"jwt signature is required">>)
    ELSE IF tok.alg \notin algorithms THEN JwtError(<<"invalid algorithm">>)
    ELSE IF ~SigValid(tok, key) THEN JwtError(<<"invalid signature">>)
    ELSE IF tok.nbf # NoNbf /\ tok.nbf > t
         THEN [name |-> "NotBeforeError", text |-> <<"jwt not active">>,
               issuers |-> << >>]
    ELSE IF t >= tok.exp
         THEN [name |-> "TokenExpiredError", text |-> <<"jwt expired">>,
               issuers |-> << >>]
    ELSE IF IssuerInvalid(tok.iss)
         THEN [name |-> "JsonWebTokenError",
               text |-> <<"jwt issuer invalid. expected: ">>,
               issuers |-> issuerOption]
    ELSE NoError

\* done(new JsonWebTokenError('error in secret or public key callback: ' + err.message))
KeyCallbackError(err) ==
    [name |-> "JsonWebTokenError",
     text |-> <<"error in secret or public key callback: ">> \o err.text,
     issuers |-> err.issuers]

(* ---------------- jwks-rsa: getSigningKey ---------------- *)
\* SigningKeyNotFoundError
KeyNotFound(k) ==
    [name |-> "SigningKeyNotFoundError",
     text |-> <<"Unable to find a signing key that matches '", k, "'">>,
     issuers |-> << >>]
\* the key-set request failed (network error, bad status, malformed body)
FetchFailed == [name |-> "JwksError", text |-> <<"key set request failed">>,
                issuers |-> << >>]

(* ---------------- state ---------------- *)
VARIABLES
    now,        \* the clock, in seconds
    served,     \* served[j]: the kids the key-discovery endpoint of j publishes
    cache,      \* cache[j][k]: time the key of kid k was cached by client j
    loading,    \* loading[j]: kids for which client j has a key-set fetch in flight
    req,        \* req[r]: the request handled in slot r
    scenario,   \* the population of clients: which tokens they hold
    rotatedAt,  \* rotatedAt[j]: when the endpoint of j last changed its key set
    page,       \* the page the browser shows: the App component and its URL
    sso,        \* the regions at whose identity provider the browser has a session
    lastVisit,  \* what the page load before this one saw and did
    kc,         \* the keycloak adapter of the page: its tokens and refreshes
    calls       \* calls[b]: the API call behind button b of the page

serverVars == <<now, served, cache, loading, req, scenario, rotatedAt>>
apiVars == <<kc, calls>>
clientVars == <<page, sso, lastVisit, apiVars>>
vars == <<now, served, cache, loading, req, scenario, rotatedAt, page, sso,
          lastVisit, kc, calls>>

\* no page has been loaded
NoPage ==
    [region |-> "", search |-> << >>, via |-> "", callback |-> FALSE,
     at |-> "none", effectRuns |-> 0, initCalled |-> FALSE,
     initCalls |-> 0, pending |-> FALSE, result |-> "", ssoAtCheck |-> {},
     initialized |-> FALSE, authenticated |-> FALSE,
     logins |-> << >>, clicks |-> 0, entered |-> FALSE]

\* no page load has settled before this one
NoVisit ==
    [region |-> "", search |-> << >>, callback |-> FALSE, ssoAtCheck |-> {},
     result |-> "", authenticated |-> FALSE, redirect |-> << >>]

\* the adapter holds no token and has sent nothing
NoToken == [serial |-> 0, exp |-> 0]
NoKeycloak ==
    [token |-> NoToken, refreshToken |-> FALSE, refreshQueue |-> {},
     inFlight |-> 0, lost |-> 0, refreshes |-> 0]

\* the buttons of the two API panels
Buttons == {"ApiDemo", "CrossRegionApiDemo"} \X {"userinfo", "data"}
NoCheck == [at |-> -1, token |-> NoToken, refreshes |-> 0]
NoFetch == [url |-> "", token |-> NoToken, refreshes |-> 0]
NoCall ==
    [pc |-> "idle", loading |-> FALSE, result |-> "", check |-> NoCheck,
     sent |-> NoFetch]
NoCalls == [b \in Buttons |-> NoCall]

NoUser == [iss |-> << >>, exp |-> -1]
NoBody == [error |-> "", detail |-> NoError, issuer |-> << >>, realm |-> ""]

\* a slot in which no request is being handled
Idle ==
    [pc |-> "idle", origin |-> "", header |-> << >>,
     lookups |-> << >>, localResult |-> "", crossResult |-> "",
     keyUsed |-> NoKey, verifiedAt |-> -1,
     status |-> 0, body |-> NoBody, user |-> NoUser,
     nextCalls |-> 0, handlerRuns |-> 0, responses |-> 0, started |-> {}]

(* ---------------- jwks-rsa cache, server.js:33-46 ---------------- *)
\* cache[j][k] is the time at which the entry of kid k was stored, NoEntry
\* when there is none, Stale for an entry that has outlived cacheMaxAge: how
\* long ago it expired makes no difference. An entry is served until it is
\* older than cacheMaxAge (milliseconds); an older entry is never read again
\* and lies there until a fetch replaces it.
NoEntry == -1
Stale == -2
FreshMutant(c, j, k, t) == c[j][k] # NoEntry
Fresh(c, j, k, t) == c[j][k] >= 0 /\ (t - c[j][k]) * 1000 <= cacheMaxAge

(* ---------------- express: responses and route handlers ---------------- *)
\* res.status(401).json({ error: "Missing or invalid Authorization header" })
MissingCredentialResponseMutant == [status |-> 401, error |-> "Invalid token"]
MissingCredentialResponse ==
    [status |-> 401, error |-> "Missing or invalid Authorization header"]

\* res.status(401).json({ error: "Invalid token", detail: err.message })
InvalidTokenResponse == [status |-> 401, error |-> "Invalid token"]

\* the default error handler of express answers next(err) with 500
CorsErrorResponse == [status |-> 500, error |-> "CORS: origin not allowed"]

Deny(q, resp, err) ==
    [q EXCEPT !.pc = "done", !.status = resp.status,
              !.body = [NoBody EXCEPT !.error = resp.error, !.detail = err],
              !.responses = @ + 1]

\* app.get("/api/userinfo" | "/api/data", authenticate, (req, res) => res.json(...))
\*   issuer: user.iss, realm: user.iss?.split("/realms/")[1]
RouteHandler(q) ==
    [q EXCEPT !.pc = "done", !.status = 200,
              !.body = [NoBody EXCEPT !.issuer = q.user.iss,
                                      !.realm = IF Len(q.user.iss) = 3
                                                THEN q.user.iss[3] ELSE ""],
              !.handlerRuns = @ + 1, !.responses = @ + 1]

\* the callback given to jwt.verify, server.js:128-137
VerifyCallbackMutant(q, err, decoded) ==
    IF err # NoError
    THEN RouteHandler([Deny(q, InvalidTokenResponse, err)
                          EXCEPT !.nextCalls = @ + 1])
    ELSE RouteHandler([q EXCEPT !.user = decoded, !.nextCalls = @ + 1])

VerifyCallback(q, err, decoded) ==
    IF err # NoError
    THEN Deny(q, InvalidTokenResponse, err)
    ELSE RouteHandler([q EXCEPT !.user = decoded, !.nextCalls = @ + 1])

\* jwt.verify continues with the key that getKey delivered
WithKey(q, key, t) ==
    LET tok == TokenOf(q.header)
        err == VerifyWithKey(tok, key, t)
    IN  VerifyCallback([q EXCEPT !.keyUsed = key, !.verifiedAt = t], err,
                       [iss |-> tok.iss, exp |-> tok.exp])

(* ---------------- getKey, server.js:54-71 ---------------- *)
\* crossJwks.getSigningKey(header.kid, ...) for a request whose local lookup
\* ended without a key: a fresh cache entry answers at once, otherwise the
\* request waits for the key-set fetch of the cross client
CrossLookup(q, c, t) ==
    LET k  == TokenOf(q.header).kid
        q1 == [q EXCEPT !.lookups = Append(@, "cross")]
    IN  IF Fresh(c, "cross", k, t)
        THEN WithKey([q1 EXCEPT !.crossResult = "key"], KeyOf("cross", k), t)
        ELSE [q1 EXCEPT !.pc = "cross"]

\* localJwks.getSigningKey(header.kid, ...)
LocalLookupMutant(q, c, t) == CrossLookup(q, c, t)
LocalLookup(q, c, t) ==
    LET k  == TokenOf(q.header).kid
        q1 == [q EXCEPT !.lookups = Append(@, "local")]
    IN  IF Fresh(c, "local", k, t)
        THEN WithKey([q1 EXCEPT !.localResult = "key"], KeyOf("local", k), t)
        ELSE [q1 EXCEPT !.pc = "local"]

\* the callback of the local lookup
LocalCallbackMutant(q, found, failed, c, t) ==
    LET k == TokenOf(q.header).kid
    IN  IF found
        THEN WithKey([q EXCEPT !.localResult = "key"], KeyOf("local", k), t)
        ELSE IF failed
             THEN VerifyCallback([q EXCEPT !.localResult = "error"],
                                 KeyCallbackError(FetchFailed), NoUser)
             ELSE CrossLookup([q EXCEPT !.localResult = "notfound"], c, t)

LocalCallback(q, found, failed, c, t) ==
    LET k == TokenOf(q.header).kid
    IN  IF found
        THEN WithKey([q EXCEPT !.localResult = "key"], KeyOf("local", k), t)
        ELSE CrossLookup([q EXCEPT !.localResult =
                                     IF failed THEN "error" ELSE "notfound"],
                         c, t)

\* the callback of the cross-region lookup
CrossCallbackMutant(q, found, failed, t) ==
    LET k == TokenOf(q.header).kid
    IN  IF ~found /\ failed
        THEN VerifyCallback([q EXCEPT !.crossResult = "error"],
                            KeyCallbackError(FetchFailed), NoUser)
        ELSE IF ~found
        THEN WithKey([q EXCEPT !.crossResult = "key"],
                     KeyOf("cross", CHOOSE k2 \in Kids : k2 # k), t)
        ELSE WithKey([q EXCEPT !.crossResult = "key"], KeyOf("cross", k), t)

CrossCallback(q, found, failed, t) ==
    LET k == TokenOf(q.header).kid
    IN  IF ~found
        THEN VerifyCallback(
                 [q EXCEPT !.crossResult = IF failed THEN "error" ELSE "notfound"],
                 KeyCallbackError(IF failed THEN FetchFailed ELSE KeyNotFound(k)),
                 NoUser)
        ELSE WithKey([q EXCEPT !.crossResult = "key"], KeyOf("cross", k), t)

(* ---------------- authenticate, server.js:110-139 ---------------- *)
authenticate(q, c, t) ==
    IF ~HasBearer(q.header)
    THEN Deny(q, MissingCredentialResponse, NoError)
    ELSE LET tok == TokenOf(q.header)
         IN  IF PreCheck(tok) # NoError
             THEN VerifyCallback(q, PreCheck(tok), NoUser)
             ELSE LocalLookup(q, c, t)

\* the middleware chain of a protected route: cors, then authenticate
PipelineMutant(q, c, t) ==
    IF q.origin = "" \/ ~OriginAllowed(q.origin)
    THEN Deny(q, CorsErrorResponse, NoError)
    ELSE authenticate(q, c, t)
Pipeline(q, c, t) ==
    IF ~OriginAllowed(q.origin)
    THEN Deny(q, CorsErrorResponse, NoError)
    ELSE authenticate(q, c, t)

(* ---------------- actions ---------------- *)
Slots == DOMAIN req
\* the key set of an endpoint has not changed since the server started
Never == -1

\* lru-memoizer: a call for a key that is not cached starts the load unless a
\* load for that key is pending, and then waits for its outcome
StartsFetchMutant(ld, j, k) == TRUE
StartsFetch(ld, j, k) == k \notin ld[j]

\* the requests of M call resolver j for kid k one after the other; a request
\* whose call starts the key-set fetch is marked
MarkStarted(rs, M, ld, j, k) ==
    [r \in DOMAIN rs |->
        IF r \in M /\ StartsFetch([ld EXCEPT ![j] = IF \E r2 \in M : r2 < r
                                                     THEN @ \cup {k} ELSE @],
                                  j, k)
        THEN [rs[r] EXCEPT !.started = @ \cup {j}]
        ELSE rs[r]]

Waiting(j, k) ==
    {r \in Slots : req[r].pc = j /\ TokenOf(req[r].header).kid = k}

\* tokens of every shape under the pinned algorithm, and otherwise well-formed
\* tokens that declare a symmetric algorithm or none
GateTemplates ==
    [kind : {"template"}, alg : {"RS256"}, kid : Kids, by : Signers,
     iss : Issuers, ttl : {-1, 1}, nbf : {FALSE}]
    \cup [kind : {"template"}, alg : {"RS256"}, kid : {"k1"}, by : {"local"},
          iss : {RegionIssuer("local")}, ttl : {0, 1}, nbf : BOOLEAN]
    \cup [kind : {"template"}, alg : {"HS256", "none"}, kid : {"k1"},
          by : {"local"}, iss : {RegionIssuer("local"), EvilIssuer},
          ttl : {-1, 1}, nbf : {FALSE}]

\* a small population: a legitimate holder of a local token and a forger
PairTemplates ==
    [kind : {"template"}, alg : {"RS256"}, kid : {"k1"},
     by : {"local", "attacker"}, iss : {RegionIssuer("local")}, ttl : {1},
     nbf : {FALSE}]

\* the holders of a token of either region, whichever key signed it
RotateTemplates ==
    { [kind |-> "template", alg |-> "RS256", kid |-> k, by |-> j,
       iss |-> RegionIssuer(j), ttl |-> 1, nbf |-> FALSE] :
         j \in Resolvers, k \in Kids }

\* the holders of a token of either region who send it again later: the
\* lifetimes are one clock step apart, so that the token sent after a step
\* can be the token sent before it
TwiceTemplates ==
    { [kind |-> "template", alg |-> "RS256", kid |-> "k1", by |-> j,
       iss |-> RegionIssuer(j), ttl |-> d, nbf |-> FALSE] :
         j \in Resolvers, d \in {1 - TickStep, 1, 1 + TickStep} }

\* the Authorization header split at single spaces; << >> = no header.
\* In a header shape a template stands where the token will be.
HeaderShapes ==
    { << >>,
      <<Word("Basic"), Word("abc")>>,
      <<Word("Bearer")>>,
      <<Word("Bearer"), Word("")>>,
      <<Word("Bearer"), Word(""), Word("x")>>,
      <<Word("Bearer"), Word("garbage")>> }
    \cup { <<Word("Bearer"), tp>> :
               tp \in GateTemplates \cup PairTemplates \cup RotateTemplates
                        \cup TwiceTemplates }

\* the header a client sends at time t
HeaderAt(shape, t) ==
    [i \in DOMAIN shape |->
        IF shape[i].kind = "template" THEN Issue(shape[i], t) ELSE shape[i]]

\* the token templates the clients of the scenario hold
templates ==
    IF scenario = "gate" THEN GateTemplates
    ELSE IF scenario = "pair" THEN PairTemplates
    ELSE IF scenario = "twice" THEN TwiceTemplates
    ELSE RotateTemplates

\* the kids some client holds a token for; an endpoint publishing other kids
\* behaves the same for these clients
PoolKids == {tp.kid : tp \in templates}

\* what the clients of the scenario may send: any header from the browser
\* application, and from every origin no header or the token of a
\* legitimate holder
Genuine(tp) ==
    /\ tp.alg = "RS256" /\ tp.by = "local" /\ ~tp.nbf
    /\ tp.iss = RegionIssuer("local") /\ tp.ttl = 1
Sendable(origin, shape) ==
    /\ \A i \in DOMAIN shape : shape[i].kind = "template" => shape[i] \in templates
    /\ scenario \in {"rotate", "twice"} =>
           origin = CORS_ORIGIN /\ Len(shape) = 2 /\ shape[2].kind = "template"
    /\ \/ origin = CORS_ORIGIN
       \/ shape = << >>
       \/ Len(shape) = 2 /\ shape[2].kind = "template" /\ Genuine(shape[2])

\* a request arrives at a protected route
Request(r, origin, shape) ==
    /\ r \in Slots
    /\ req[r].pc = "idle"
    /\ Sendable(origin, shape)
    /\ LET q == Pipeline([Idle EXCEPT !.pc = "run", !.origin = origin,
                                      !.header = HeaderAt(shape, now)],
                         cache, now)
       IN  IF q.pc \in Resolvers
           THEN /\ req' = MarkStarted([req EXCEPT ![r] = q], {r}, loading,
                                      q.pc, TokenOf(q.header).kid)
                /\ loading' = [loading EXCEPT ![q.pc] = @ \cup {TokenOf(q.header).kid}]
           ELSE /\ req' = [req EXCEPT ![r] = q]
                /\ loading' = loading
    /\ UNCHANGED <<now, served, cache, scenario, rotatedAt, clientVars>>

\* the key-set fetch of the local client for kid k ends; ok = the endpoint answered
LocalFetchDone(k, ok) ==
    /\ k \in loading["local"]
    /\ LET found == ok /\ k \in served["local"]
           c1    == IF found THEN [cache EXCEPT !["local"][k] = now] ELSE cache
           W     == Waiting("local", k)
           next  == [r \in Slots |->
                        IF r \in W THEN LocalCallback(req[r], found, ~ok, c1, now)
                                   ELSE req[r]]
       IN  /\ cache' = c1
           /\ req' = MarkStarted(next, {r \in W : next[r].pc = "cross"},
                                 loading, "cross", k)
           /\ loading' = [loading EXCEPT
                            !["local"] = @ \ {k},
                            !["cross"] = IF \E r \in W : next[r].pc = "cross"
                                         THEN @ \cup {k} ELSE @]
    /\ UNCHANGED <<now, served, scenario, rotatedAt, clientVars>>

\* the key-set fetch of the cross-region client for kid k ends
CrossFetchDone(k, ok) ==
    /\ k \in loading["cross"]
    /\ LET found == ok /\ k \in served["cross"]
           W     == Waiting("cross", k)
       IN  /\ cache' = IF found THEN [cache EXCEPT !["cross"][k] = now] ELSE cache
           /\ req' = [r \in Slots |->
                        IF r \in W THEN CrossCallback(req[r], found, ~ok, now)
                                   ELSE req[r]]
           /\ loading' = [loading EXCEPT !["cross"] = @ \ {k}]
    /\ UNCHANGED <<now, served, scenario, rotatedAt, clientVars>>

\* the response of a finished request has been delivered; its slot is free
Reset(r) ==
    /\ r \in Slots
    /\ req[r].pc = "done"
    /\ req' = [req EXCEPT ![r] = Idle]
    /\ UNCHANGED <<now, served, cache, loading, scenario, rotatedAt, clientVars>>

\* time passes; an entry that has outlived cacheMaxAge is stale from now on
Tick ==
    /\ now < MaxTicks * TickStep
    /\ now' = now + TickStep
    /\ cache' = [j \in Resolvers |-> [k \in Kids |->
                    IF cache[j][k] = NoEntry \/ Fresh(cache, j, k, now')
                    THEN cache[j][k] ELSE Stale]]
    /\ UNCHANGED <<served, loading, req, scenario, rotatedAt, clientVars>>

EnvInit ==
    /\ now = 0
    /\ served \in [Resolvers -> SUBSET PoolKids]
    /\ cache = [j \in Resolvers |-> [k \in Kids |-> NoEntry]]
    /\ loading = [j \in Resolvers |-> {}]
    /\ rotatedAt = [j \in Resolvers |-> Never]
    /\ page = NoPage /\ sso = {} /\ lastVisit = NoVisit
    /\ kc = NoKeycloak /\ calls = NoCalls

\* one request at a time, carrying any header and any token
Init ==
    /\ scenario = "gate"
    /\ EnvInit
    /\ req = [r \in {1} |-> Idle]

\* the request slots a scenario may have
SlotIds == {1, 2}

Next ==
    \/ \E r \in SlotIds, o \in Origins, h \in HeaderShapes : Request(r, o, h)
    \/ \E k \in Kids, ok \in BOOLEAN : LocalFetchDone(k, ok)
    \/ \E k \in Kids, ok \in BOOLEAN : CrossFetchDone(k, ok)
    \/ \E r \in SlotIds : Reset(r)
    \/ Tick

Spec == Init /\ [][Next]_vars

\* two requests in flight at once
InitPair ==
    /\ scenario = "pair"
    /\ EnvInit
    /\ req = [r \in {1, 2} |-> Idle]

SpecPair == InitPair /\ [][Next]_vars

\* two requests in flight at once, from holders who send their token twice
InitTwice ==
    /\ scenario = "twice"
    /\ EnvInit
    /\ req = [r \in {1, 2} |-> Idle]

SpecTwice == InitTwice /\ [][Next]_vars

(* ======================================================================= *)
(* The browser application, eu-app/src/App.tsx                             *)
(* ======================================================================= *)
\* const REGION, OTHER_REGION: the two regions, each with its application
\* and its identity provider
REGION == "EU"
OTHER_REGION == "US"
Regions == {REGION, OTHER_REGION}
Other(region) == IF region = REGION THEN OTHER_REGION ELSE REGION
\* the alias registered on the other region's provider that points back to
\* this region
CROSS_IDP_HINT == "eu-keycloak-idp"
Registered(region, alias) == region = OTHER_REGION /\ alias = CROSS_IDP_HINT

\* the idp_hint parameter of a URL: << >> when the URL has none, <<v>> when
\* its value is v
Hints == {<< >>, <<"">>, <<CROSS_IDP_HINT>>, <<"unknown-idp">>}

\* the App component of a page that has just been loaded: region is the
\* application, search the idp_hint of its URL, via tells what brought the
\* browser here (the user, a link, the logout or the provider answering a
\* login redirect, whose answer the URL then carries), entered that the user
\* typed credentials on the way here. The page left behind is prev.
FreshPageMutant(prev, region, search, via, entered) ==
    [region |-> region, search |-> search, via |-> via,
     callback |-> via = "provider",
     at |-> "app", effectRuns |-> 0, initCalled |-> prev.initCalled,
     initCalls |-> 0, pending |-> FALSE, result |-> "", ssoAtCheck |-> {},
     initialized |-> FALSE, authenticated |-> FALSE,
     logins |-> << >>, clicks |-> 0, entered |-> entered]
FreshPage(prev, region, search, via, entered) ==
    [region |-> region, search |-> search, via |-> via,
     callback |-> via = "provider",
     at |-> "app", effectRuns |-> 0, initCalled |-> FALSE,
     initCalls |-> 0, pending |-> FALSE, result |-> "", ssoAtCheck |-> {},
     initialized |-> FALSE, authenticated |-> FALSE,
     logins |-> << >>, clicks |-> 0, entered |-> entered]

\* what a page load saw and did, once keycloak.init has settled
Summary(p) ==
    [region |-> p.region, search |-> p.search, callback |-> p.callback,
     ssoAtCheck |-> p.ssoAtCheck, result |-> p.result,
     authenticated |-> p.authenticated,
     redirect |-> IF p.logins # << >> /\ p.logins[1].clicks = 0
                  THEN p.logins[1].idpHint ELSE << >>]
\* the page is left: it is remembered when its check had settled
Leave(p, last) == IF p.initialized THEN Summary(p) ELSE last

\* what App renders, App.tsx:70-105
ViewMutant(p) == IF p.authenticated THEN "app" ELSE "landing"
View(p) ==
    IF ~p.initialized THEN "spinner"
    ELSE IF p.authenticated THEN "app" ELSE "landing"

\* new URLSearchParams(window.location.search).get("idp_hint"), and the
\* test if (idpHint): the alias to log in at, << >> when there is none
idpHintMutant(search, auth) == IF auth THEN << >> ELSE <<CROSS_IDP_HINT>>
idpHint(search, auth) ==
    IF ~auth /\ search # << >> /\ search[1] # "" THEN search ELSE << >>

\* keycloak.login(options): the browser leaves for the login endpoint of the
\* provider of the page's region
loginMutant(p, hint) ==
    [p EXCEPT !.logins = Append(@, [idpHint |-> hint, clicks |-> p.clicks])]
login(p, hint) ==
    [p EXCEPT !.logins = Append(@, [idpHint |-> hint, clicks |-> p.clicks]),
              !.at = "provider"]

\* React runs the effect of a mounted component, twice under StrictMode
MaxEffectRuns == 2

\* the lifetime the provider gives an access token, in seconds
AccessTokenLifespan == 300
\* the adapter after keycloak.init found the user authenticated at time t
Authenticated(t) ==
    [NoKeycloak EXCEPT !.token = [serial |-> 0,
                                  exp |-> t + AccessTokenLifespan],
                       !.refreshToken = TRUE]

\* useEffect(() => { if (initCalled.current) return; initCalled.current =
\* true; keycloak.init({ onLoad: "check-sso", ... }) ... }, [])
EffectCallbackMutant(p) ==
    [p EXCEPT !.initCalled = TRUE, !.initCalls = @ + 1, !.pending = TRUE]
EffectCallback(p) ==
    IF p.initCalled THEN p
    ELSE [p EXCEPT !.initCalled = TRUE, !.initCalls = @ + 1, !.pending = TRUE]

Effect ==
    /\ page.at = "app" /\ page.effectRuns < MaxEffectRuns
    /\ page' = EffectCallback([page EXCEPT !.effectRuns = @ + 1])
    /\ UNCHANGED <<serverVars, apiVars, sso, lastVisit>>

\* keycloak.init resolves: with true when the URL carries the answer to a
\* login redirect or the silent check finds a session at the provider of
\* the region, with false otherwise; then the .then callback runs
InitResolved ==
    /\ page.at = "app" /\ page.pending
    /\ LET auth == page.callback \/ page.region \in sso
           p1   == [page EXCEPT !.pending = FALSE, !.ssoAtCheck = sso,
                                !.result = IF auth THEN "true" ELSE "false",
                                !.authenticated = auth, !.initialized = TRUE]
           hint == idpHint(page.search, auth)
       IN  /\ page' = IF hint # << >> THEN login(p1, hint) ELSE p1
           /\ kc' = IF auth THEN Authenticated(now) ELSE kc
    /\ UNCHANGED <<serverVars, calls, sso, lastVisit>>

\* .catch((err) => { console.error(...); setInitialized(true); })
CatchCallbackMutant(p) ==
    LET p1 == [p EXCEPT !.initialized = TRUE]
    IN  IF idpHint(p.search, FALSE) # << >>
        THEN login(p1, idpHint(p.search, FALSE)) ELSE p1
CatchCallback(p) == [p EXCEPT !.initialized = TRUE]

\* keycloak.init rejects; the .catch callback runs
InitRejected ==
    /\ page.at = "app" /\ page.pending
    /\ page' = CatchCallback([page EXCEPT !.pending = FALSE, !.ssoAtCheck = sso,
                                          !.result = "rejected"])
    /\ UNCHANGED <<serverVars, apiVars, sso, lastVisit>>

\* the user clicks a login button of the landing page: handleLogin
ClickLogin ==
    /\ page.at = "app" /\ View(page) = "landing"
    /\ page' = login([page EXCEPT !.clicks = @ + 1], << >>)
    /\ UNCHANGED <<serverVars, apiVars, sso, lastVisit>>

\* the user clicks logout: keycloak.logout({ redirectUri: origin }) ends the
\* session at the provider and loads the application without parameters
ClickLogout ==
    /\ page.at = "app" /\ View(page) = "app"
    /\ sso' = sso \ {page.region}
    /\ lastVisit' = Leave(page, lastVisit)
    /\ page' = FreshPage(page, page.region, << >>, "logout", FALSE)
    /\ kc' = NoKeycloak /\ calls' = NoCalls
    /\ UNCHANGED serverVars

\* the user follows the link of CrossRegionBanner:
\* href = OTHER_APP_URL?idp_hint=CROSS_IDP_HINT
ClickBanner ==
    /\ page.at = "app" /\ View(page) = "app" /\ page.region = REGION
    /\ lastVisit' = Leave(page, lastVisit)
    /\ page' = FreshPage(page, OTHER_REGION, <<CROSS_IDP_HINT>>, "link", FALSE)
    /\ kc' = NoKeycloak /\ calls' = NoCalls
    /\ UNCHANGED <<serverVars, sso>>

\* the user opens the application of a region, with or without an idp_hint
Load(region, search) ==
    /\ lastVisit' = Leave(page, lastVisit)
    /\ page' = FreshPage(page, region, search, "user", FALSE)
    /\ kc' = NoKeycloak /\ calls' = NoCalls
    /\ UNCHANGED <<serverVars, sso>>

\* the login request the provider of the page's region is working on
LoginRequest == page.logins[Len(page.logins)]

\* the provider finds its own session and sends the browser back
ProviderReturns ==
    /\ page.at = "provider" /\ page.region \in sso
    /\ lastVisit' = Leave(page, lastVisit)
    /\ page' = FreshPage(page, page.region, page.search, "provider", page.entered)
    /\ kc' = NoKeycloak /\ calls' = NoCalls
    /\ UNCHANGED <<serverVars, sso>>

\* the provider has no session and was given a registered alias: it hands
\* the login to the other region's provider, which finds its session; the
\* provider opens a session of its own and sends the browser back
ProviderBrokers ==
    /\ page.at = "provider" /\ page.region \notin sso
    /\ LoginRequest.idpHint # << >>
    /\ Registered(page.region, LoginRequest.idpHint[1])
    /\ Other(page.region) \in sso
    /\ sso' = sso \cup {page.region}
    /\ lastVisit' = Leave(page, lastVisit)
    /\ page' = FreshPage(page, page.region, page.search, "provider", page.entered)
    /\ kc' = NoKeycloak /\ calls' = NoCalls
    /\ UNCHANGED serverVars

\* no session lets the login through: the user types credentials into the
\* login form, of the other region's provider when the login was handed on
EnterCredentials ==
    /\ page.at = "provider" /\ page.region \notin sso
    /\ LET brokered == /\ LoginRequest.idpHint # << >>
                        /\ Registered(page.region, LoginRequest.idpHint[1])
       IN  /\ brokered => Other(page.region) \notin sso
           /\ sso' = sso \cup {page.region}
                         \cup (IF brokered THEN {Other(page.region)} ELSE {})
    /\ lastVisit' = Leave(page, lastVisit)
    /\ page' = FreshPage(page, page.region, page.search, "provider", TRUE)
    /\ kc' = NoKeycloak /\ calls' = NoCalls
    /\ UNCHANGED serverVars

\* the server is not part of the client scenarios
ClientInit ==
    /\ scenario = "client" /\ now = 0
    /\ served = [j \in Resolvers |-> {}]
    /\ cache = [j \in Resolvers |-> [k \in Kids |-> NoEntry]]
    /\ loading = [j \in Resolvers |-> {}]
    /\ rotatedAt = [j \in Resolvers |-> Never]
    /\ req = << >>

\* a browser with any sessions, in which the user opens and uses the
\* applications
InitApp ==
    /\ ClientInit
    /\ kc = NoKeycloak /\ calls = NoCalls
    /\ page = NoPage /\ lastVisit = NoVisit
    /\ sso \in SUBSET Regions

NextApp ==
    \/ \E region \in Regions, search \in Hints : Load(region, search)
    \/ Effect
    \/ InitResolved
    \/ InitRejected
    \/ ClickLogin
    \/ ClickLogout
    \/ ClickBanner
    \/ ProviderReturns
    \/ ProviderBrokers
    \/ EnterCredentials

SpecApp == InitApp /\ [][NextApp]_vars

\* a page that has just been opened and is left alone by the user: the
\* effect runs, keycloak.init settles and the providers answer
InitBroker ==
    /\ ClientInit
    /\ kc = NoKeycloak /\ calls = NoCalls
    /\ lastVisit = NoVisit
    /\ sso \in SUBSET Regions
    /\ \E region \in Regions, search \in Hints :
           page = FreshPage(NoPage, region, search, "user", FALSE)

NextBroker ==
    \/ Effect
    \/ InitResolved
    \/ InitRejected
    \/ ProviderBrokers
    \/ EnterCredentials

\* React runs the effect of a mounted component, keycloak.init settles, and
\* a provider that can answer a login redirect without the user does so; a
\* user facing a login form may never fill it in
SpecBroker ==
    /\ InitBroker /\ [][NextBroker]_vars
    /\ WF_vars(Effect)
    /\ WF_vars(InitResolved \/ InitRejected)
    /\ WF_vars(ProviderBrokers)

(* ---------------- the API panels ---------------- *)
API_URL == "http://localhost:4001"
OTHER_API_URL == "http://localhost:4000"
UrlOf(b) == IF b[1] = "ApiDemo" THEN API_URL ELSE OTHER_API_URL

\* keycloak.updateToken(30): the seconds a token must still be valid for
minValidity == 30

\* the clock of the browser advances in steps of ElapseStep seconds
ElapseStep == 20
MaxElapse == 2
\* the refresh requests a page sends
MaxRefreshes == 2

\* kc.isTokenExpired(minValidity): expiresIn = exp - now - minValidity < 0
isTokenExpiredMutant(k, t, mv) == k.token.exp - t < 0
isTokenExpired(k, t, mv) == k.token.exp - t - mv < 0

\* if (refreshQueue.length == 1): only the first promise in the queue sends
\* the refresh request
sendsRefreshMutant(queue) == TRUE
sendsRefresh(queue) == Cardinality(queue) = 1

\* kc.updateToken(mv), called at time t by the call behind button b: the
\* adapter afterwards and the state of the promise it returns
updateToken(k, b, t, mv) ==
    IF ~k.refreshToken
    THEN [kc |-> k, promise |-> "rejected", error |-> "undefined"]
    ELSE IF ~isTokenExpired(k, t, mv)
    THEN [kc |-> k, promise |-> "resolved", error |-> ""]
    ELSE LET queue == k.refreshQueue \cup {b}
             n == IF sendsRefresh(queue) THEN 1 ELSE 0
         IN  [kc |-> [k EXCEPT !.refreshQueue = queue,
                               !.inFlight = @ + n, !.refreshes = @ + n],
              promise |-> "pending", error |-> ""]

\* setToken with the answer of the token endpoint, received at time t
setTokenMutant(k, t) == [k EXCEPT !.refreshToken = TRUE]
setToken(k, t) ==
    [k EXCEPT !.token = [serial |-> k.refreshes,
                         exp |-> t + AccessTokenLifespan],
              !.refreshToken = TRUE]

\* kc.clearToken()
clearToken(k) == [k EXCEPT !.token = NoToken, !.refreshToken = FALSE]

\* the call after `await keycloak.updateToken(30)` resolved: fetch is called
\* with the token the adapter holds
fetchMutant(c, b, k, t) ==
    [c EXCEPT !.pc = "fetch",
              !.sent = [url |-> UrlOf(b), token |-> c.check.token,
                        refreshes |-> k.refreshes]]
fetch(c, b, k, t) ==
    [c EXCEPT !.pc = "fetch",
              !.sent = [url |-> UrlOf(b), token |-> k.token,
                        refreshes |-> k.refreshes]]

\* the call when the try block has run through: the setter, then finally
settled(c, result) == [NoCall EXCEPT !.result = result]

\* catch (err) { setter(`Error: ${...}`) } finally { setLoading(... false) }
catch(c, b, k, t, err) == settled(c, "Error: " \o err)

\* callApi / callCrossApi up to its first suspension
callApi(b, k, t) ==
    LET u == updateToken(k, b, t, minValidity)
        c == [NoCall EXCEPT !.loading = TRUE,
                            !.check = [at |-> t, token |-> k.token,
                                       refreshes |-> k.refreshes]]
    IN  [kc |-> u.kc,
         call |-> CASE u.promise = "resolved" -> fetch(c, b, u.kc, t)
                    [] u.promise = "rejected" -> catch(c, b, u.kc, t, u.error)
                    [] OTHER -> [c EXCEPT !.pc = "updateToken"]]

\* the user clicks an enabled button of a panel
Click(b) ==
    /\ page.at = "app" /\ View(page) = "app"
    /\ ~calls[b].loading
    /\ kc.refreshes < MaxRefreshes
    /\ kc' = callApi(b, kc, now).kc
    /\ calls' = [calls EXCEPT ![b] = callApi(b, kc, now).call]
    /\ UNCHANGED <<serverVars, page, sso, lastVisit>>

\* the token endpoint answers a refresh request with 200: every promise in
\* the queue resolves
RefreshSucceeded ==
    /\ kc.inFlight > 0
    /\ LET k == [setToken(kc, now) EXCEPT !.inFlight = @ - 1,
                                          !.refreshQueue = {}]
       IN  /\ kc' = k
           /\ calls' = [b \in Buttons |->
                          IF b \in kc.refreshQueue
                          THEN fetch(calls[b], b, k, now) ELSE calls[b]]
    /\ UNCHANGED <<serverVars, page, sso, lastVisit>>

\* the refresh request fails: on status 400 the adapter clears its tokens;
\* every promise in the queue rejects with true
RefreshStatuses == {400, 500}
RefreshFailed(status) ==
    /\ kc.inFlight > 0
    /\ LET k == [(IF status = 400 THEN clearToken(kc) ELSE kc)
                    EXCEPT !.inFlight = @ - 1, !.refreshQueue = {}]
       IN  /\ kc' = k
           /\ calls' = [b \in Buttons |->
                          IF b \in kc.refreshQueue
                          THEN catch(calls[b], b, k, now, "true")
                          ELSE calls[b]]
    /\ UNCHANGED <<serverVars, page, sso, lastVisit>>

\* the refresh request is never answered: the adapter sets no timeout on it
RefreshLost ==
    /\ kc.inFlight > 0
    /\ kc' = [kc EXCEPT !.inFlight = @ - 1, !.lost = @ + 1]
    /\ UNCHANGED <<serverVars, page, sso, lastVisit, calls>>

\* the API answers: callApi shows the body whatever the status, callCrossApi
\* shows status and body when the status is not ok
FetchAnswered(b, ok) ==
    /\ calls[b].pc = "fetch"
    /\ calls' = [calls EXCEPT ![b] =
                   settled(@, IF ok \/ b[1] = "ApiDemo" THEN "body"
                              ELSE "status")]
    /\ UNCHANGED <<serverVars, page, sso, lastVisit, kc>>

\* fetch rejects (the API cannot be reached)
FetchRejected(b) ==
    /\ calls[b].pc = "fetch"
    /\ calls' = [calls EXCEPT ![b] = catch(@, b, kc, now, "Failed to fetch")]
    /\ UNCHANGED <<serverVars, page, sso, lastVisit, kc>>

\* the API never answers: fetch is called without a timeout
FetchLost(b) ==
    /\ calls[b].pc = "fetch"
    /\ calls' = [calls EXCEPT ![b].pc = "lost"]
    /\ UNCHANGED <<serverVars, page, sso, lastVisit, kc>>

\* time passes
Elapse ==
    /\ now < MaxElapse * ElapseStep
    /\ now' = now + ElapseStep
    /\ UNCHANGED <<served, cache, loading, req, scenario, rotatedAt,
                   clientVars>>

\* the seconds the token of the page has left when the user turns to the
\* panels
InitialRemaining == {10, 50, AccessTokenLifespan}

\* an authenticated page of the application
InitApi ==
    /\ ClientInit
    /\ sso = {REGION} /\ lastVisit = NoVisit
    /\ page = [FreshPage(NoPage, REGION, << >>, "user", FALSE) EXCEPT
                 !.effectRuns = MaxEffectRuns, !.initCalled = TRUE,
                 !.initCalls = 1,
                 !.result = "true", !.ssoAtCheck = {REGION},
                 !.initialized = TRUE, !.authenticated = TRUE]
    /\ \E r \in InitialRemaining :
           kc = [NoKeycloak EXCEPT !.token = [serial |-> 0, exp |-> r],
                                   !.refreshToken = TRUE]
    /\ calls = NoCalls

NextApi ==
    \/ \E b \in Buttons : Click(b)
    \/ RefreshSucceeded
    \/ \E status \in RefreshStatuses : RefreshFailed(status)
    \/ \E b \in Buttons, ok \in BOOLEAN : FetchAnswered(b, ok)
    \/ \E b \in Buttons : FetchRejected(b)
    \/ Elapse

SpecApi == InitApi /\ [][NextApi]_vars

\* the silent check of keycloak.init is never answered: no message arrives
\* from the hidden frame, and neither the adapter nor App sets a timeout
SilentCheckLost ==
    /\ page.at = "app" /\ page.pending
    /\ page' = [page EXCEPT !.pending = FALSE, !.ssoAtCheck = sso,
                            !.result = "lost"]
    /\ UNCHANGED <<serverVars, apiVars, sso, lastVisit>>

\* a page of the application from its load on, or from the moment the user
\* turns to the panels, on a network that may leave a request unanswered
InitSession ==
    \/ InitApi
    \/ /\ ClientInit
       /\ sso \in SUBSET {REGION} /\ lastVisit = NoVisit
       /\ page = FreshPage(NoPage, REGION, << >>, "user", FALSE)
       /\ kc = NoKeycloak /\ calls = NoCalls

NextSession ==
    \/ Effect
    \/ InitResolved
    \/ InitRejected
    \/ SilentCheckLost
    \/ \E b \in Buttons : Click(b)
    \/ RefreshSucceeded
    \/ \E status \in RefreshStatuses : RefreshFailed(status)
    \/ RefreshLost
    \/ \E b \in Buttons, ok \in BOOLEAN : FetchAnswered(b, ok)
    \/ \E b \in Buttons : FetchRejected(b)
    \/ \E b \in Buttons : FetchLost(b)
    \/ Elapse

\* React runs the effect, and every request that is not left unanswered is
\* answered: keycloak.init settles, the refresh request completes and fetch
\* settles; the user may or may not click
SpecSession ==
    /\ InitSession /\ [][NextSession]_vars
    /\ WF_vars(Effect)
    /\ WF_vars(InitResolved \/ InitRejected)
    /\ WF_vars(RefreshSucceeded
                 \/ \E status \in RefreshStatuses : RefreshFailed(status))
    /\ \A b \in Buttons :
           WF_vars((\E ok \in BOOLEAN : FetchAnswered(b, ok))
                      \/ FetchRejected(b))

(* ---------------- key rotation ---------------- *)
\* in the rotation scenario an endpoint publishes its one active signing key
ActiveKeySets == {{k} : k \in Kids}

\* the identity provider of region j replaces the key set its endpoint
\* publishes (old kid removed, new kid added); the verifier is not told
Rotate(j, S) ==
    /\ S # served[j]
    /\ served' = [served EXCEPT ![j] = S]
    /\ rotatedAt' = [rotatedAt EXCEPT ![j] = now]
    /\ UNCHANGED <<now, cache, loading, req, scenario, clientVars>>

\* one request at a time, with a token of either region, while the regions
\* rotate their keys
InitRotate ==
    /\ scenario = "rotate"
    /\ EnvInit
    /\ \A j \in Resolvers : served[j] \in ActiveKeySets
    /\ req = [r \in {1} |-> Idle]

NextRotate ==
    \/ \E r \in SlotIds, o \in Origins, h \in HeaderShapes : Request(r, o, h)
    \/ \E k \in Kids, ok \in BOOLEAN : LocalFetchDone(k, ok)
    \/ \E k \in Kids, ok \in BOOLEAN : CrossFetchDone(k, ok)
    \/ \E r \in SlotIds : Reset(r)
    \/ Tick
    \/ \E j \in Resolvers, S \in ActiveKeySets : Rotate(j, S)

SpecRotate == InitRotate /\ [][NextRotate]_vars

(* ======================================================================= *)
(* Properties                                                              *)
(* ======================================================================= *)
Done(r) == req[r].pc = "done"
\* the header, read as a string, begins with "Bearer "
StartsWithBearer(h) == Len(h) > 1 /\ h[1].kind = "word" /\ h[1].text = "Bearer"
Tok(r) == TokenOf(req[r].header)
\* the request passed the origin check and carries a three-part token
IsJwt(r) ==
    /\ OriginAllowed(req[r].origin)
    /\ StartsWithBearer(req[r].header)
    /\ Tok(r).kind = "jwt"
Admitted(r) == req[r].nextCalls > 0 \/ req[r].handlerRuns > 0
Claims(r) == [iss |-> Tok(r).iss, exp |-> Tok(r).exp]

\* the outcome of a finished request in the words of the error taxonomy,
\* read off the response that was sent
Reason(r) ==
    LET q == req[r]
        d == q.body.detail.text
    IN  IF q.status = 200 THEN "Accepted"
        ELSE IF q.status = 500 THEN "OriginNotAllowed"
        ELSE IF q.body.error = "Missing or invalid Authorization header"
             THEN "MissingCredential"
        ELSE IF q.body.error # "Invalid token" \/ d = << >> THEN "Other"
        ELSE IF d[1] \in {"jwt must be provided", "jwt malformed"} THEN "Malformed"
        ELSE IF d[1] = "error in secret or public key callback: "
             THEN "UnknownSigningKey"
        ELSE IF d[1] \in {"jwt signature is required", "invalid algorithm",
                          "invalid signature"} THEN "BadSignature"
        ELSE IF d[1] = "jwt not active" THEN "NotActive"
        ELSE IF d[1] = "jwt expired" THEN "Expired"
        ELSE IF d[1] = "jwt issuer invalid. expected: " THEN "UntrustedIssuer"
        ELSE "Other"

KeyDelivered(r) == req[r].localResult = "key" \/ req[r].crossResult = "key"
\* the signature verifies under the pinned algorithm with the delivered key
SignatureOk(r) ==
    /\ KeyDelivered(r)
    /\ Tok(r).alg = "RS256"
    /\ req[r].keyUsed = KeyOf(Tok(r).by, Tok(r).kid)
Untrusted(r) == \A i \in 1..Len(ACCEPTED_ISSUERS) : ACCEPTED_ISSUERS[i] # Tok(r).iss
ExpiredAtCheck(r) == Tok(r).exp <= req[r].verifiedAt
NotYetActive(r) == Tok(r).nbf # NoNbf /\ Tok(r).nbf > req[r].verifiedAt

\* the reason of the earliest failing step, the issuer check coming before
\* the expiry check or after it
FirstFailure(r, issuerFirst) ==
    IF Tok(r).kind # "jwt" THEN "Malformed"
    ELSE IF ~KeyDelivered(r) THEN "UnknownSigningKey"
    ELSE IF ~SignatureOk(r) THEN "BadSignature"
    ELSE IF NotYetActive(r) THEN "NotActive"
    ELSE IF issuerFirst /\ Untrusted(r) THEN "UntrustedIssuer"
    ELSE IF ExpiredAtCheck(r) THEN "Expired"
    ELSE IF Untrusted(r) THEN "UntrustedIssuer"
    ELSE "Accepted"

\* a token signed by a key its region currently publishes, with that region's
\* issuer, an expiry in the future and no not-before time
ValidToken(r) ==
    /\ IsJwt(r)
    /\ Tok(r).nbf = NoNbf
    /\ Tok(r).alg = "RS256"
    /\ Tok(r).by \in Resolvers
    /\ Tok(r).kid \in served[Tok(r).by]
    /\ Tok(r).iss = RegionIssuer(Tok(r).by)
    /\ Tok(r).exp > now

\* C1 as stated: every token signed by a current key of the local or the peer
\* region, with that region's issuer and a future expiry, is admitted with
\* its claims attached and no 401.
C1_Original ==
    \A r \in Slots :
        Done(r) /\ ValidToken(r)
            => Admitted(r) /\ req[r].status = 200 /\ req[r].user = Claims(r)

\* C1 amended: such a token is admitted provided the lookup can deliver its
\* key (the fetch from the signing region's endpoint did not fail and, for a
\* peer token, the local resolver did not deliver a key for the same kid).
C1_ValidTokenAccepted ==
    \A r \in Slots :
        ( /\ Done(r) /\ ValidToken(r)
          /\ Tok(r).by = "local" => req[r].localResult # "error"
          /\ Tok(r).by = "cross" => /\ req[r].localResult # "key"
                                    /\ req[r].crossResult # "error" )
            => /\ Admitted(r) /\ req[r].nextCalls = 1
               /\ req[r].status = 200 /\ req[r].user = Claims(r)

\* a peer-region token was admitted after the local endpoint failed
C1_Witness ==
    \E r \in Slots :
        /\ Done(r) /\ ValidToken(r) /\ Tok(r).by = "cross"
        /\ req[r].localResult = "error" /\ req[r].crossResult = "key"
        /\ req[r].status = 200

C3_UnknownKidRejected ==
    \A r \in Slots :
        /\ ( /\ Done(r) /\ IsJwt(r)
             /\ Tok(r).kid \notin served["local"]
             /\ Tok(r).kid \notin served["cross"] )
               => ~KeyDelivered(r)
        /\ (Done(r) /\ IsJwt(r) /\ ~KeyDelivered(r))
               => /\ Reason(r) = "UnknownSigningKey" /\ req[r].status = 401
                  /\ ~Admitted(r) /\ req[r].user = NoUser
                  /\ req[r].keyUsed = NoKey
                  /\ req[r].lookups = <<"local", "cross">>
        /\ req[r].keyUsed # NoKey
               => /\ IsJwt(r) /\ req[r].keyUsed.kid = Tok(r).kid
                  /\ Tok(r).kid \in served[req[r].keyUsed.owner]

\* a token with an unpublished kid was rejected while the peer resolver held
\* the key of another kid in its cache
C3_Witness ==
    \E r \in Slots :
        /\ Done(r) /\ IsJwt(r) /\ req[r].crossResult = "notfound"
        /\ req[r].localResult = "notfound"
        /\ \E k \in Kids : k # Tok(r).kid /\ cache["cross"][k] >= 0
        /\ Reason(r) = "UnknownSigningKey"

\* C4: a token whose exp lies before the verifier's clock is never admitted,
\* at whatever moment its request is verified, and once its key is resolved
\* and its signature verifies it is rejected as Expired (exp = clock - 1 and
\* exp = clock included: no clock-skew allowance).
C4_ExpiredRejected ==
    \A r \in Slots :
        /\ (Done(r) /\ IsJwt(r) /\ Admitted(r))
               => /\ req[r].verifiedAt # -1
                  /\ req[r].verifiedAt < Tok(r).exp
        /\ ( /\ Done(r) /\ IsJwt(r) /\ SignatureOk(r) /\ ~NotYetActive(r)
             /\ Tok(r).exp <= req[r].verifiedAt )
               => /\ Reason(r) = "Expired" /\ req[r].status = 401
                  /\ ~Admitted(r) /\ req[r].user = NoUser

\* a token that was still valid when its request arrived expired while the
\* key was being fetched, and was rejected as Expired
C4_Witness ==
    \E r \in Slots :
        /\ Done(r) /\ IsJwt(r) /\ SignatureOk(r)
        /\ Tok(r).exp < req[r].verifiedAt
        /\ req[r].localResult = "notfound" /\ req[r].crossResult = "key"
        /\ Reason(r) = "Expired"

C6_AlgorithmPinned ==
    \A r \in Slots :
        (Done(r) /\ IsJwt(r) /\ Tok(r).alg # "RS256")
            => /\ ~Admitted(r) /\ req[r].status = 401 /\ req[r].user = NoUser
               /\ KeyDelivered(r) => Reason(r) = "BadSignature"

\* an HS256 token keyed with the public key that the lookup then resolved
\* has been rejected
C6_Witness ==
    \E r \in Slots :
        /\ Done(r) /\ IsJwt(r) /\ Tok(r).alg = "HS256"
        /\ req[r].keyUsed = KeyOf(Tok(r).by, Tok(r).kid)
        /\ Tok(r).exp > req[r].verifiedAt /\ ~Untrusted(r)
        /\ req[r].status = 401

\* C7: without an Authorization header that starts with "Bearer " the gate
\* answers 401 MissingCredential at once and invokes neither key resolver.
C7_MissingCredentialFailsFast ==
    \A r \in Slots :
        /\ (Done(r) /\ OriginAllowed(req[r].origin) /\ ~StartsWithBearer(req[r].header))
               => /\ req[r].status = 401
                  /\ req[r].body.error = "Missing or invalid Authorization header"
                  /\ Reason(r) = "MissingCredential"
                  /\ req[r].lookups = << >>
                  /\ req[r].localResult = "" /\ req[r].crossResult = ""
                  /\ ~Admitted(r)
        /\ req[r].pc \in Resolvers => StartsWithBearer(req[r].header)
        /\ req[r].lookups # << >> => StartsWithBearer(req[r].header)

\* a request with a non-Bearer scheme has been rejected while the caches
\* were still empty
C7_Witness ==
    \E r \in Slots :
        /\ Done(r) /\ req[r].header = <<Word("Basic"), Word("abc")>>
        /\ req[r].status = 401 /\ req[r].lookups = << >>

\* C8: a finished request is either Accepted (the decoded claims are on
\* req.user, the handler ran once) or Rejected (one denial response, req.user
\* unset, the handler never ran), never a mix; an unfinished one is neither.
C8_AcceptedOrRejected ==
    \A r \in Slots :
        /\ Done(r) =>
              \/ /\ req[r].nextCalls = 1 /\ req[r].handlerRuns = 1
                 /\ req[r].responses = 1 /\ req[r].status = 200
                 /\ IsJwt(r) /\ req[r].user = Claims(r)
                 /\ req[r].body.error = ""
              \/ /\ req[r].nextCalls = 0 /\ req[r].handlerRuns = 0
                 /\ req[r].responses = 1 /\ req[r].status \in {401, 500}
                 /\ req[r].user = NoUser
                 /\ req[r].body.error # ""
        /\ ~Done(r) =>
              /\ req[r].nextCalls = 0 /\ req[r].handlerRuns = 0
              /\ req[r].responses = 0 /\ req[r].status = 0
              /\ req[r].user = NoUser

\* a request has been rejected after its key was fetched
C8_Witness ==
    \E r \in Slots :
        /\ Done(r) /\ IsJwt(r) /\ KeyDelivered(r)
        /\ req[r].status = 401 /\ req[r].responses = 1

\* C9: no denial body contains an entry of the trusted-issuer allow-list (or
\* anything else that depends on the configured issuers).
C9_NoTrustListInBody ==
    \A r \in Slots :
        (Done(r) /\ req[r].status # 200)
            => /\ req[r].body.detail.issuers = << >>
               /\ req[r].body.issuer = << >>

\* C10 as stated: the status of a denial for a missing or ill-formed
\* Authorization header differs from the status of a denial for a bearer
\* token that fails verification.
C10_Original ==
    \A r1, r2 \in Slots :
        ( /\ Done(r1) /\ OriginAllowed(req[r1].origin) /\ ~StartsWithBearer(req[r1].header)
          /\ Done(r2) /\ OriginAllowed(req[r2].origin) /\ StartsWithBearer(req[r2].header)
          /\ ~Admitted(r2) )
            => req[r1].status # req[r2].status

\* C10 amended: both denials carry status 401; they are told apart by the
\* error label of the body, "Missing or invalid Authorization header" against
\* "Invalid token".
C10_LabelDistinguishes ==
    \A r1, r2 \in Slots :
        ( /\ Done(r1) /\ OriginAllowed(req[r1].origin) /\ ~StartsWithBearer(req[r1].header)
          /\ Done(r2) /\ OriginAllowed(req[r2].origin) /\ StartsWithBearer(req[r2].header)
          /\ ~Admitted(r2) )
            => /\ req[r1].status = 401 /\ req[r2].status = 401
               /\ req[r1].body.error # req[r2].body.error
               /\ req[r2].body.error = "Invalid token"

\* one request without a header and one with a forged token have both been
\* denied
C10_Witness ==
    \E r1, r2 \in Slots :
        /\ Done(r1) /\ req[r1].header = << >> /\ OriginAllowed(req[r1].origin)
        /\ Done(r2) /\ IsJwt(r2) /\ Tok(r2).by = "attacker"
        /\ req[r2].keyUsed # NoKey /\ req[r2].status = 401

(* ---------------- C11: the origin allow-list ---------------- *)
\* the Origin header names one of the two configured browser applications
OriginListed(o) == o = CORS_ORIGIN \/ o = CROSS_CORS_ORIGIN

\* the request was stopped by the cors middleware: nothing behind it ran
StoppedAtCors(r) ==
    /\ req[r].pc = "done"
    /\ req[r].status = 500 /\ req[r].body.error = "CORS: origin not allowed"
    /\ req[r].lookups = << >>
    /\ req[r].localResult = "" /\ req[r].crossResult = ""
    /\ req[r].keyUsed = NoKey /\ req[r].user = NoUser
    /\ req[r].nextCalls = 0 /\ req[r].handlerRuns = 0
    /\ req[r].responses = 1

\* C11: a request that carries an Origin header naming none of the configured
\* allowed origins is answered by the cors middleware alone: it never waits
\* on a key resolver, authenticate issues no denial of its own, no key lookup
\* is made, next() is not called and no route handler runs, whether or not
\* the request carries a valid token.
C11_ForeignOriginDenied ==
    \A r \in Slots :
        (req[r].pc # "idle" /\ req[r].origin # "" /\ ~OriginListed(req[r].origin))
            => StoppedAtCors(r)

\* a request from a foreign origin that carried the token of a legitimate
\* holder, whose key the local endpoint publishes, has been denied
C11_Witness ==
    \E r \in Slots :
        /\ Done(r) /\ req[r].origin = "http://evil.example"
        /\ StartsWithBearer(req[r].header) /\ Tok(r).kind = "jwt"
        /\ Tok(r).alg = "RS256" /\ Tok(r).by = "local"
        /\ Tok(r).iss = RegionIssuer("local") /\ Tok(r).exp > now
        /\ Tok(r).kid \in served["local"]
        /\ req[r].status = 500

(* ---------------- C12: the order of the federated lookup ---------------- *)
\* the request got as far as getKey
AskedForKey(r) == req[r].lookups # << >>

\* C12: getKey asks the local resolver first and the peer resolver only after
\* the local lookup has ended without a key. A key delivered by the local
\* resolver is the one used, and the peer is then not asked. When the local
\* endpoint publishes the kid and answers, the local key is used; when only
\* the peer endpoint publishes it and answers, the peer's key is used.
C12_LocalThenPeer ==
    \A r \in Slots :
        AskedForKey(r) =>
            LET q == req[r]
                k == Tok(r).kid
            IN  /\ q.lookups \in {<<"local">>, <<"local", "cross">>}
                /\ q.pc = "local" => q.lookups = <<"local">> /\ q.localResult = ""
                /\ Len(q.lookups) = 2 => q.localResult \in {"notfound", "error"}
                /\ q.localResult = "key" =>
                       /\ q.lookups = <<"local">> /\ q.crossResult = ""
                       /\ q.keyUsed = KeyOf("local", k)
                /\ (Done(r) /\ k \in served["local"] /\ q.localResult # "error")
                       => q.localResult = "key"
                /\ ( /\ Done(r) /\ k \notin served["local"]
                     /\ k \in served["cross"] /\ q.crossResult # "error" )
                       => /\ q.lookups = <<"local", "cross">>
                          /\ q.crossResult = "key"
                          /\ q.keyUsed = KeyOf("cross", k)

\* a token whose kid only the peer endpoint publishes was verified with the
\* peer's key after the local lookup had ended without one
C12_Witness ==
    \E r \in Slots :
        /\ Done(r) /\ req[r].lookups = <<"local", "cross">>
        /\ Tok(r).kid \notin served["local"] /\ Tok(r).kid \in served["cross"]
        /\ req[r].localResult = "notfound"
        /\ req[r].keyUsed = KeyOf("cross", Tok(r).kid)
        /\ Admitted(r)

(* ---------------- C13: one fetch for concurrent lookups ---------------- *)
\* the requests waiting on resolver j for kid k whose call started the fetch
Starters(j, k) == {r \in Waiting(j, k) : j \in req[r].started}

ResultOf(r, j) == IF j = "local" THEN req[r].localResult ELSE req[r].crossResult
\* the entry of kid k in the cache of resolver j can be served at time t
Servable(j, k, t) == cache[j][k] >= 0 /\ (t - cache[j][k]) * 1000 <= cacheMaxAge
\* no token is admitted without a delivered key that verifies its signature
AcceptedOnlyWithKey(r) ==
    Admitted(r) => /\ KeyDelivered(r) /\ req[r].keyUsed # NoKey
                   /\ req[r].keyUsed = KeyOf(Tok(r).by, Tok(r).kid)
\* a failed lookup of the peer resolver ends the request with the fetch error
FailsUnavailable(r) ==
    /\ req[r].status = 401 /\ req[r].keyUsed = NoKey /\ ~Admitted(r)
    /\ req[r].body.detail = KeyCallbackError(FetchFailed)

SentAt(r) == Tok(r).exp - 1
\* the request was sent more than cacheMaxAge after the endpoint of region j
\* last changed its key set
RotationSettled(j, r) ==
    /\ rotatedAt[j] # Never
    /\ (SentAt(r) - rotatedAt[j]) * 1000 > cacheMaxAge
\* a token signed by region j with a kid the endpoint of j no longer publishes
RemovedKeyToken(r, j) ==
    /\ IsJwt(r) /\ Tok(r).alg = "RS256" /\ Tok(r).by = j
    /\ Tok(r).iss = RegionIssuer(j) /\ Tok(r).kid \notin served[j]

\* C15 as stated: once cacheMaxAge has passed since an endpoint changed its
\* key set, every token signed with a key of the new set is admitted and
\* every token signed with a removed key is rejected as UnknownSigningKey.
C15_Original ==
    \A r \in Slots : \A j \in Resolvers :
        (Done(r) /\ IsJwt(r) /\ Tok(r).by = j /\ RotationSettled(j, r)) =>
            /\ ValidToken(r) => Admitted(r) /\ req[r].status = 200
            /\ RemovedKeyToken(r, j) => Reason(r) = "UnknownSigningKey"

\* C15 amended: once cacheMaxAge has passed since the change, a token signed
\* with a key of the new set is admitted provided the lookup can deliver its
\* key (the fetch from its region did not fail and, for a peer token, the
\* local resolver did not deliver a key for the same kid); a token signed
\* with a removed key is never admitted: it is rejected with 401, as
\* UnknownSigningKey when no resolver delivers a key for its kid and as
\* BadSignature when the other region publishes a key under the same kid.
C15_Rotation ==
    \A r \in Slots : \A j \in Resolvers :
        (Done(r) /\ IsJwt(r) /\ Tok(r).by = j /\ RotationSettled(j, r)) =>
            /\ ( /\ ValidToken(r)
                 /\ j = "local" => req[r].localResult # "error"
                 /\ j = "cross" => /\ req[r].localResult # "key"
                                   /\ req[r].crossResult # "error" )
                   => /\ Admitted(r) /\ req[r].status = 200
                      /\ req[r].keyUsed = KeyOf(j, Tok(r).kid)
            /\ RemovedKeyToken(r, j)
                   => /\ ~Admitted(r) /\ req[r].status = 401
                      /\ req[r].keyUsed # KeyOf(j, Tok(r).kid)
                      /\ ~KeyDelivered(r) => Reason(r) = "UnknownSigningKey"
                      /\ KeyDelivered(r) => /\ Reason(r) = "BadSignature"
                                            /\ req[r].keyUsed.owner # j

\* the key of a local token was cached, the local endpoint then dropped it,
\* the entry expired and the token was rejected for want of a key
C15_Witness ==
    \E r \in Slots :
        /\ Done(r) /\ RemovedKeyToken(r, "local") /\ RotationSettled("local", r)
        /\ cache["local"][Tok(r).kid] = Stale
        /\ req[r].localResult = "notfound" /\ req[r].crossResult = "notfound"
        /\ Reason(r) = "UnknownSigningKey"

(* ---------------- C16: verifying the same token twice ---------------- *)
\* the response and the identity attached to the request
Outcome(r) == <<req[r].status, req[r].body, req[r].user>>
\* the number of key-set fetches the two requests started at endpoint j
FetchesAt(j, r1, r2) ==
    (IF j \in req[r1].started THEN 1 ELSE 0)
        + (IF j \in req[r2].started THEN 1 ELSE 0)
\* both requests carried the same token, no fetch failed, the same resolver j
\* delivered the key to both, and both were verified within the lifetime of
\* the cache entry of j that is still servable now
TwiceWithin(r1, r2, j) ==
    /\ r1 # r2 /\ Done(r1) /\ Done(r2)
    /\ IsJwt(r1) /\ req[r1].header = req[r2].header
    /\ \A r \in {r1, r2} :
           /\ ResultOf(r, j) = "key"
           /\ req[r].localResult # "error" /\ req[r].crossResult # "error"
           /\ cache[j][Tok(r).kid] <= req[r].verifiedAt
    /\ Servable(j, Tok(r1).kid, now)

Phase(p) ==
    IF p.initialized THEN (IF p.authenticated THEN "authenticated" ELSE "anonymous")
    ELSE IF p.initCalls > 0 THEN "checking-silent-auth"
    ELSE "uninitialized"
\* a page has just been loaded: its session controller is a new one
Loaded(p) == p.effectRuns = 0 /\ p.initCalls = 0 /\ ~p.initialized

\* C17: the session of a page moves from uninitialized to checking-silent-auth
\* and from there to authenticated or to anonymous, and makes no other move
\* until another page is loaded. The authenticated view is shown only after
\* keycloak.init has resolved with true, and as long as it has not settled
\* the page shows neither the authenticated view nor the login form.
C17_SessionStates ==
    /\ [][ \/ Loaded(page')
           \/ Phase(page') = Phase(page)
           \/ <<Phase(page), Phase(page')>> \in
                  { <<"uninitialized", "checking-silent-auth">>,
                    <<"checking-silent-auth", "authenticated">>,
                    <<"checking-silent-auth", "anonymous">> } ]_vars
    /\ [](View(page) = "app" => page.result = "true" /\ ~page.pending)
    /\ [](page.at # "none" /\ page.result = "" => View(page) = "spinner")

\* the silent check of a page found a session and the page shows the
\* authenticated view
C17_Witness ==
    /\ page.at = "app" /\ ~page.callback /\ page.region \in page.ssoAtCheck
    /\ page.result = "true" /\ Phase(page) = "authenticated"
    /\ View(page) = "app"

(* ---------------- C18: the automatic login ---------------- *)
\* the URL of the page names an alias in its idp_hint parameter
NamesAlias(p) == p.search # << >> /\ p.search[1] # ""
\* the login redirects the page started without a click of the user
AutoLogins(p) == {i \in DOMAIN p.logins : p.logins[i].clicks = 0}

SameVisit(p, last) ==
    /\ p.initialized /\ last # NoVisit
    /\ p.region = last.region /\ p.search = last.search
    /\ p.callback = last.callback
    /\ p.ssoAtCheck = last.ssoAtCheck
    /\ (p.result = "rejected") = (last.result = "rejected")

\* C19: what a page load does depends on its URL and on what the silent
\* check finds, not on earlier page loads: every page load calls
\* keycloak.init once, and a load of the same URL that meets the same
\* provider sessions as the load before it reaches the same session state
\* and starts the same login redirect, or none as before.
C19_Stateless ==
    /\ page.effectRuns > 0 => page.initCalls = 1
    /\ SameVisit(page, lastVisit)
           => /\ page.result = lastVisit.result
              /\ page.authenticated = lastVisit.authenticated
              /\ Summary(page).redirect = lastVisit.redirect

\* the link of the banner was loaded twice in a row by a browser without a
\* session at the destination: both loads started the login at its alias
C19_Witness ==
    /\ SameVisit(page, lastVisit) /\ ~page.callback
    /\ page.search = <<CROSS_IDP_HINT>> /\ page.region = OTHER_REGION
    /\ lastVisit.redirect = <<CROSS_IDP_HINT>>
    /\ page.at = "provider" /\ page.logins[1].idpHint = <<CROSS_IDP_HINT>>

(* ---------------- C20: the brokered redirect ---------------- *)
\* the other region's application has just been opened through the link of
\* the banner by a browser that has a session at this region's provider and
\* none at the other's
BrokeredStart ==
    /\ page.via = "user" /\ Loaded(page)
    /\ page.region = OTHER_REGION /\ page.search = <<CROSS_IDP_HINT>>
    /\ REGION \in sso /\ OTHER_REGION \notin sso

PeerError(res, k) ==
    KeyCallbackError(IF res = "error" THEN FetchFailed ELSE KeyNotFound(k))

\* C26: whenever the local lookup ends without a key, because the fetch
\* failed or because the kid is not published, getKey asks the peer resolver;
\* when the peer lookup ends without a key too, the request is rejected with
\* the error of the peer lookup alone, so the response is the same whether
\* the local lookup failed or found nothing.
C26_PeerErrorOnly ==
    \A r \in Slots :
        (Done(r) /\ AskedForKey(r) /\ req[r].localResult \in {"notfound", "error"})
            => /\ req[r].lookups = <<"local", "cross">>
               /\ req[r].crossResult \in {"key", "notfound", "error"}
               /\ req[r].crossResult # "key"
                      => /\ req[r].status = 401 /\ ~Admitted(r)
                         /\ req[r].body.error = "Invalid token"
                         /\ req[r].body.detail =
                                PeerError(req[r].crossResult, req[r].header[2].kid)

\* the local fetch failed, the peer endpoint does not publish the kid: the
\* response names the missing key and not the failed fetch
C26_Witness ==
    \E r \in Slots :
        /\ Done(r) /\ req[r].localResult = "error"
        /\ req[r].crossResult = "notfound"
        /\ req[r].body.detail = KeyCallbackError(KeyNotFound(req[r].header[2].kid))

(* ---------------- C27: requests without an Origin header ---------------- *)
\* C27: a request without an Origin header is never refused by the cors
\* middleware: authenticate handles it, so it waits for a key, is denied
\* with 401 or is served. The cors middleware refuses exactly the requests
\* whose Origin header names none of the allowed origins.
C27_NoOriginPasses ==
    \A r \in Slots :
        /\ (req[r].pc # "idle" /\ req[r].origin = "")
               => /\ ~StoppedAtCors(r)
                  /\ Done(r) => req[r].status \in {200, 401}
                  /\ (Done(r) /\ ~StartsWithBearer(req[r].header))
                         => req[r].body.error = "Missing or invalid Authorization header"
        /\ (Done(r) /\ req[r].status = 500)
               => req[r].origin # "" /\ ~OriginListed(req[r].origin)

\* a request without an Origin header and with the token of a legitimate
\* holder has been served
C27_Witness ==
    \E r \in Slots :
        /\ Done(r) /\ req[r].origin = "" /\ StartsWithBearer(req[r].header)
        /\ req[r].status = 200 /\ req[r].handlerRuns = 1

(* ---------------- C29: the token is the second segment ---------------- *)
\* the header starts with "Bearer " and its second segment is empty
EmptyBearer(h) == StartsWithBearer(h) /\ h[2] = Word("")

\* C29: a header that starts with "Bearer " and has an empty second segment
\* ("Bearer " alone, or "Bearer  x" with two spaces) is not taken for a
\* missing credential: jwt.verify is given the empty string and the request
\* is denied with 401 "Invalid token" and the detail "jwt must be provided";
\* it is never admitted and no key resolver is asked.
C29_SecondSegment ==
    \A r \in Slots :
        (req[r].pc # "idle" /\ OriginListed(req[r].origin) /\ EmptyBearer(req[r].header))
            => /\ Done(r) /\ req[r].status = 401 /\ ~Admitted(r)
               /\ req[r].body.error = "Invalid token"
               /\ req[r].body.detail = JwtError(<<"jwt must be provided">>)
               /\ req[r].lookups = << >> /\ req[r].keyUsed = NoKey
               /\ req[r].user = NoUser

\* the header "Bearer  x" has been denied as an invalid token
C29_Witness ==
    \E r \in Slots :
        /\ Done(r) /\ req[r].header = <<Word("Bearer"), Word(""), Word("x")>>
        /\ req[r].status = 401 /\ req[r].body.error = "Invalid token"

(* ---------------- C28: a rejected keycloak.init ---------------- *)
\* C28: when keycloak.init rejects, the page ends initialized and anonymous
\* and shows the landing page; it starts no login by itself, whatever the
\* idp_hint parameter says. A login the page started by itself always
\* follows an init that resolved with false.
C28_RejectedInit ==
    /\ page.result = "rejected"
           => /\ page.initialized /\ ~page.authenticated /\ ~page.pending
              /\ View(page) = "landing"
              /\ AutoLogins(page) = {}
              /\ page.at = "provider" => page.clicks > 0
    /\ AutoLogins(page) # {} => page.result = "false"

\* keycloak.init rejected on a page loaded through the link of the banner:
\* the page stays on the landing page
C28_Witness ==
    /\ page.result = "rejected" /\ page.search = <<CROSS_IDP_HINT>>
    /\ page.initialized /\ page.at = "app" /\ page.logins = << >>

(* ---------------- C30: keycloak.init is called once ---------------- *)
\* C30: however often the mounting effect runs, a page load calls
\* keycloak.init at most once, exactly once when the effect has run, and so
\* starts at most one login by itself.
C30_InitOnce ==
    /\ page.initCalls <= 1
    /\ page.effectRuns > 0 => page.initCalls = 1 /\ page.initCalled
    /\ Cardinality(AutoLogins(page)) <= 1

\* the effect ran twice, keycloak.init was called once and the page started
\* one login at the alias of its URL
C30_Witness ==
    /\ page.effectRuns = MaxEffectRuns /\ page.initCalls = 1
    /\ page.result = "false" /\ Len(page.logins) = 1
    /\ page.logins[1].clicks = 0

(* ---------------- C21: refresh before the request ---------------- *)
\* the seconds the token held at the check of the call behind b had left
RemainingAtCheck(b) == calls[b].check.token.exp - calls[b].check.at
\* the call behind b has sent its API request
HasSent(b) == calls[b].sent # NoFetch

\* C21: a call checks the token before it sends anything: while it waits for
\* the adapter it has sent no request; a request it sends carries the token
\* held at the check only if that token had at least the margin of 30
\* seconds left at the check, and otherwise carries a token of a refresh
\* that completed after the check.
C21_RefreshBeforeSend ==
    \A b \in Buttons :
        /\ calls[b].pc = "updateToken" => ~HasSent(b)
        /\ HasSent(b) =>
              /\ calls[b].check.at >= 0 /\ calls[b].sent.url = UrlOf(b)
              /\ IF RemainingAtCheck(b) >= minValidity
                 THEN calls[b].sent.token = calls[b].check.token
                 ELSE calls[b].sent.token.serial > calls[b].check.token.serial

\* a request to the peer's API went out after a refresh: the token at the
\* check had 10 seconds left
C21_Witness ==
    \E b \in Buttons :
        /\ HasSent(b) /\ calls[b].sent.url = OTHER_API_URL
        /\ RemainingAtCheck(b) = 10
        /\ calls[b].sent.token.exp > calls[b].check.token.exp

(* ---------------- C22: a failed refresh ---------------- *)
\* the call behind b ended because the refresh it waited for failed:
\* updateToken rejected with true
RefreshFailedFor(b) == calls[b].result = "Error: true"

\* C22: when the refresh a call waited for fails, the session is anonymous
\* and the authenticated view is no longer shown, the caller shows an error,
\* and no request was sent with the old token.
C22_Original ==
    \A b \in Buttons :
        RefreshFailedFor(b) =>
            /\ ~page.authenticated /\ View(page) # "app"
            /\ ~calls[b].loading /\ ~HasSent(b)

(* ---------------- C23: one refresh at a time ---------------- *)
\* the calls that wait for updateToken
Waiters == {b \in Buttons : calls[b].pc = "updateToken"}
\* the waiting calls whose updateToken sent a refresh request
Senders == {b \in Waiters : calls[b].check.refreshes < kc.refreshes}

\* C23: at most one refresh request is in flight; the calls that wait for a
\* token are exactly the queue of that one request, only one of them sent
\* it, and the calls it lets through carry the same token.
C23_OneRefresh ==
    /\ kc.inFlight <= 1
    /\ kc.refreshQueue = Waiters
    /\ Waiters # {} => kc.inFlight = 1 /\ Cardinality(Senders) = 1
    /\ \A b \in Waiters : calls[b].check.refreshes >= kc.refreshes - 1
    /\ \A b, c \in Buttons :
           /\ HasSent(b) /\ HasSent(c)
           /\ calls[b].check.token = calls[c].check.token
           /\ RemainingAtCheck(b) < minValidity
           /\ RemainingAtCheck(c) < minValidity
           => calls[b].sent.token = calls[c].sent.token

\* a call of each panel waits for the same refresh request
C23_Witness ==
    /\ kc.inFlight = 1 /\ kc.refreshes = 1
    /\ \E b, c \in Waiters :
           /\ b[1] = "ApiDemo" /\ c[1] = "CrossRegionApiDemo"
           /\ calls[b].check.refreshes = 0 /\ calls[c].check.refreshes = 1

(* ---------------- C24: one refresh, a later expiry ---------------- *)
\* C24: a call that finds less than the margin left on the token causes one
\* refresh request, the one it sends when it waits alone or the pending one
\* it joins, and goes on with the token of that request, which expires
\* strictly later than the token it found; a call that finds the margin
\* left causes no refresh request and goes on with the token it found.
C24_OneRefreshLater ==
    /\ \A b \in Waiters :
           /\ RemainingAtCheck(b) < minValidity
           /\ Waiters = {b} => kc.refreshes = calls[b].check.refreshes + 1
    /\ \A b \in Buttons :
           HasSent(b) =>
               IF RemainingAtCheck(b) < minValidity
               THEN /\ calls[b].sent.token.exp > calls[b].check.token.exp
                    /\ calls[b].sent.token.serial = calls[b].sent.refreshes
                    /\ calls[b].sent.refreshes >= 1
                    /\ calls[b].sent.refreshes - calls[b].check.refreshes <= 1
               ELSE /\ calls[b].sent.refreshes = calls[b].check.refreshes
                    /\ calls[b].sent.token = calls[b].check.token

\* a call found an expired token, sent the one refresh request and went on
\* with a token that lasts a full lifetime from the answer
C24_Witness ==
    \E b \in Buttons :
        /\ HasSent(b) /\ RemainingAtCheck(b) < 0
        /\ calls[b].sent.refreshes = calls[b].check.refreshes + 1
        /\ calls[b].sent.token.exp >= calls[b].check.at + AccessTokenLifespan

(* ---------------- C25: nothing blocks for ever ---------------- *)
\* C25: no operation of the session blocks for ever: a page that has called
\* keycloak.init eventually leaves the checking state (initialized), and a
\* call that is loading eventually is not, also when the silent check, the
\* refresh request or the API request is never answered.
C25_Original ==
    /\ (page.initCalls > 0) ~> page.initialized
    /\ \A b \in Buttons : calls[b].loading ~> ~calls[b].loading

====
